---- MODULE Spec2Model ----
(***************************************************************************)
(* Model of .github/scripts/generate_appcast.py: the appcast generator.    *)
(*                                                                         *)
(* Representation of Python values:                                        *)
(*   - a dict entry / optional value is a record [k, v]: k = "missing"     *)
(*     (key not in the dict), "none" (None), "str" (a string, v its        *)
(*     content) or "obj" (a dict, v its fields);                           *)
(*   - tag names, versions and asset names are sequences of characters;    *)
(*   - timestamps are sequences of digits, compared as Python compares     *)
(*     strings (lexicographically, code point by code point);              *)
(*   - a Markdown text is the sequence of its lines as the list scan of    *)
(*     markdown_to_html classifies them ("empty": no character, "space":   *)
(*     white space only, "ul", "ol", "text"); the empty string is the      *)
(*     single line <<"empty">>;                                            *)
(*   - an HTML string is the sequence of the lines joined by "\n"; the     *)
(*     empty string is <<>>.                                               *)
(***************************************************************************)
EXTENDS Integers, Sequences, FiniteSets, TLC

VARIABLES
    pc,                 \* position of the run
    file,               \* appcast.json on disk before the run
    api,                \* what the release-listing request will answer
    existing_appcast,   \* main: existing_appcast
    stderr,             \* diagnostic lines printed so far
    releases,           \* generate_appcast: releases
    signature_map,      \* generate_appcast: signature_map
    idx,                \* generate_appcast: position of the for loop
    release,            \* the release handed to generate_appcast_item
    item,               \* what generate_appcast_item returned
    items,              \* generate_appcast: items
    appcast,            \* the document generate_appcast returned
    output,             \* the file at OUTPUT_PATH as written by this run
    exit_code,          \* process exit status ("running" until it ends)
    assets,             \* find_dmg_asset: assets
    dmg_asset,          \* find_dmg_asset: returned value
    lines,              \* markdown_to_html: lines
    pos,                \* markdown_to_html: position of the for loop
    in_ul,              \* markdown_to_html: in_ul
    in_ol,              \* markdown_to_html: in_ol
    result              \* markdown_to_html: result

mainVars == <<file, api, existing_appcast, stderr, releases, signature_map,
              idx, items, appcast, output, exit_code>>
itemVars == <<release, item>>
assetVars == <<assets, dmg_asset>>
mdVars == <<lines, pos, in_ul, in_ol, result>>
vars == <<pc, mainVars, itemVars, assetVars, mdVars>>

----------------------------------------------------------------------------
(* Bounds *)

MaxAssets == 3
MaxTagLen == 3
MaxLines == 3
MaxReleases == 2
MaxPriorItems == 1

----------------------------------------------------------------------------
(* Python values *)

Missing == [k |-> "missing", v |-> <<>>]
PyNone == [k |-> "none", v |-> <<>>]
Str(s) == [k |-> "str", v |-> s]
Obj(r) == [k |-> "obj", v |-> r]

\* dict.get(key, default): the default only when the key is not in the dict.
Get(entry, default) == IF entry.k = "missing" THEN default ELSE entry

SeqsUpTo(S, n) == UNION {[1..m -> S] : m \in 0..n}

\* s.endswith(suf)
EndsWith(s, suf) ==
    /\ Len(s) >= Len(suf)
    /\ SubSeq(s, Len(s) - Len(suf) + 1, Len(s)) = suf

\* sub in s
Contains(s, sub) ==
    \E i \in 1..(Len(s) - Len(sub) + 1) : SubSeq(s, i, i + Len(sub) - 1) = sub

\* a < b on strings
RECURSIVE StrLess(_, _)
StrLess(a, b) ==
    IF b = <<>> THEN FALSE
    ELSE IF a = <<>> THEN TRUE
    ELSE IF Head(a) # Head(b) THEN Head(a) < Head(b)
    ELSE StrLess(Tail(a), Tail(b))

----------------------------------------------------------------------------
(* find_dmg_asset *)

XKeyDmg == <<"X", "K", "e", "y", ".", "d", "m", "g">>
DotDmg == <<".", "d", "m", "g">>
IM == <<"I", "M">>

\* asset['name'] == 'XKey.dmg'
IsMain(a) == a.name = XKeyDmg
\* asset['name'].endswith('.dmg') and 'IM' not in asset['name']
IsFallback(a) == EndsWith(a.name, DotDmg) /\ ~Contains(a.name, IM)

\* Position of the asset at which the first / the second for loop returns (0: none).
FirstMain(al) ==
    IF \E i \in 1..Len(al) : IsMain(al[i])
    THEN CHOOSE i \in 1..Len(al) :
            IsMain(al[i]) /\ \A j \in 1..(i - 1) : ~IsMain(al[j])
    ELSE 0
FirstFallback(al) ==
    IF \E i \in 1..Len(al) : IsFallback(al[i])
    THEN CHOOSE i \in 1..Len(al) :
            IsFallback(al[i]) /\ \A j \in 1..(i - 1) : ~IsFallback(al[j])
    ELSE 0

\* The two loops in the other order.
find_dmg_asset_fallback_first(al) ==
    IF FirstFallback(al) # 0 THEN Obj(al[FirstFallback(al)])
    ELSE IF FirstMain(al) # 0 THEN Obj(al[FirstMain(al)])
    ELSE PyNone

find_dmg_asset(al) ==
    IF FirstMain(al) # 0 THEN Obj(al[FirstMain(al)])
    ELSE IF FirstFallback(al) # 0 THEN Obj(al[FirstFallback(al)])
    ELSE PyNone

----------------------------------------------------------------------------
(* markdown_to_html: the list scan *)

IsUl(line) == line = "ul"
IsOl(line) == line = "ol"
\* line.strip() is the empty string
IsBlank(line) == line \in {"empty", "space"}

LineKinds == {"empty", "space", "ul", "ol", "text"}

\* One iteration of the for loop over lines, on st = [in_ul, in_ol, result].
ScanLine(st, line) ==
    IF IsUl(line) THEN
        [in_ul |-> TRUE, in_ol |-> st.in_ol,
         result |-> st.result
                    \o (IF st.in_ul THEN <<>> ELSE <<"<ul>">>) \o <<"<li>">>]
    ELSE IF IsOl(line) THEN
        [in_ul |-> st.in_ul, in_ol |-> TRUE,
         result |-> st.result
                    \o (IF st.in_ol THEN <<>> ELSE <<"<ol>">>) \o <<"<li>">>]
    ELSE
        [in_ul |-> FALSE, in_ol |-> FALSE,
         result |-> st.result
                    \o (IF st.in_ul THEN <<"</ul>">> ELSE <<>>)
                    \o (IF st.in_ol THEN <<"</ol>">> ELSE <<>>)
                    \o (IF IsBlank(line) THEN <<>> ELSE <<"<p>">>)]

\* After the loop: close what is still open.
ScanEnd(st) ==
    [in_ul |-> st.in_ul, in_ol |-> st.in_ol,
     result |-> st.result
                \o (IF st.in_ul THEN <<"</ul>">> ELSE <<>>)
                \o (IF st.in_ol THEN <<"</ol>">> ELSE <<>>)]

ScanStart == [in_ul |-> FALSE, in_ol |-> FALSE, result |-> <<>>]

RECURSIVE ScanAll(_, _)
ScanAll(st, ls) ==
    IF ls = <<>> THEN st ELSE ScanAll(ScanLine(st, Head(ls)), Tail(ls))

\* markdown_to_html(markdown), markdown given by its lines.
markdown_to_html(markdown) == ScanEnd(ScanAll(ScanStart, markdown)).result

----------------------------------------------------------------------------
(* generate_appcast_item *)

\* str.lstrip('v'): every leading "v" goes.
RECURSIVE lstrip_v(_)
lstrip_v(s) == IF s # <<>> /\ Head(s) = "v" THEN lstrip_v(Tail(s)) ELSE s

\* Truth value of release.get('body', ''): a non-empty string.
BodyTruthy(b) == b.k = "str" /\ b.v # <<"empty">>

\* The paragraph linking to the release page.
LinkLine == "<p><a>Xem chi tiet tren GitHub</a></p>"

\* The draft test alone: a prerelease goes through.
SkipsFlagged_draft_only(rel) == rel.draft

\* release.get('draft') or release.get('prerelease')
SkipsFlagged(rel) == rel.draft \/ rel.prerelease

\* not dmg_asset, reached when the release is no draft and no prerelease:
\* the release is skipped with a warning.
SkipsNoDmg(rel) == ~SkipsFlagged(rel) /\ find_dmg_asset(rel.assets).k # "obj"

\* markdown_to_html(release_notes) if release_notes else ''
RenderedNotes(rel) ==
    LET release_notes == Get(rel.body, Str(<<"empty">>))
    IN  IF BodyTruthy(release_notes) THEN markdown_to_html(release_notes.v)
        ELSE <<>>

\* The link appended whenever the body is non-empty, rendered or not.
ReleaseNotesHtml_link_always(rel) ==
    IF BodyTruthy(Get(rel.body, Str(<<"empty">>)))
    THEN Append(RenderedNotes(rel), LinkLine)
    ELSE RenderedNotes(rel)

\* release_notes_html after the append of the link
ReleaseNotesHtml(rel) ==
    IF RenderedNotes(rel) # <<>> THEN Append(RenderedNotes(rel), LinkLine)
    ELSE RenderedNotes(rel)

\* release.get('published_at', release.get('created_at'))
PubDate(rel) == Get(rel.published_at, Get(rel.created_at, PyNone))

generate_appcast_item(rel) ==
    IF SkipsFlagged(rel) THEN PyNone
    ELSE IF find_dmg_asset(rel.assets).k # "obj" THEN PyNone
    ELSE
        LET dmg == find_dmg_asset(rel.assets).v
            version == lstrip_v(rel.tag_name)
        IN  Obj([title |-> <<"Version ">> \o version,
                 version |-> version,
                 url |-> rel.html_url,
                 releaseNotesHTML |-> ReleaseNotesHtml(rel),
                 pubDate |-> PubDate(rel),
                 minimumSystemVersion |-> "12.0",
                 enclosure |-> [url |-> dmg.browser_download_url,
                                version |-> version,
                                length |-> dmg.size,
                                type |-> "application/octet-stream",
                                edSignature |-> Missing]])

----------------------------------------------------------------------------
(* Inputs *)

XKeyOldDmg == <<"X", "K", "e", "y", "-", "o", "l", "d", ".", "d", "m", "g">>
XKeyBetaDmg == <<"X", "K", "e", "y", "-", "b", "e", "t", "a", ".", "d", "m", "g">>
XKeyIMDmg == <<"X", "K", "e", "y", "_", "I", "M", ".", "d", "m", "g">>
XKeyZip == <<"X", "K", "e", "y", ".", "z", "i", "p">>
AssetNames == {XKeyDmg, XKeyOldDmg, XKeyBetaDmg, XKeyIMDmg, XKeyZip}

\* The assets of a release with the given names; the download URL of the
\* i-th asset is i, so that no two assets of a release are equal.
AssetsNamed(names) ==
    [i \in 1..Len(names) |->
        [name |-> names[i], browser_download_url |-> i, size |-> i]]

AssetLists == {AssetsNamed(names) : names \in SeqsUpTo(AssetNames, MaxAssets)}

\* Markdown texts of at most n lines.
Texts(n) == SeqsUpTo(LineKinds, n) \ {<<>>}

TagNames == SeqsUpTo({"v", "1"}, MaxTagLen) \ {<<>>}

\* Releases handed to generate_appcast_item alone.
MaxBodyLines == 1
ItemReleases ==
    [tag_name : TagNames,
     draft : BOOLEAN,
     prerelease : BOOLEAN,
     assets : {AssetsNamed(<<>>), AssetsNamed(<<XKeyDmg>>),
               AssetsNamed(<<XKeyIMDmg>>)},
     body : {Missing, PyNone} \cup {Str(t) : t \in Texts(MaxBodyLines)},
     html_url : {"html_url"},
     published_at : {Missing, PyNone, Str(<<2>>)},
     created_at : {Missing, Str(<<1>>)}]

\* Releases the API answers in a full run: "v1" and "2", published "10",
\* "2" or with no value, created "1"; a draft, a prerelease and a release
\* without installer, each published last.
Rel(tag, draft, prerelease, names, published_at) ==
    [tag_name |-> tag, draft |-> draft, prerelease |-> prerelease,
     assets |-> AssetsNamed(names), body |-> PyNone, html_url |-> "html_url",
     published_at |-> published_at, created_at |-> Str(<<1>>)]

ApiReleases ==
    {Rel(tag, FALSE, FALSE, <<XKeyDmg>>, p) :
        tag \in {<<"v", "1">>, <<"2">>},
        p \in {PyNone, Str(<<1, 0>>), Str(<<2>>)}}
    \cup {Rel(<<"v", "1">>, TRUE, FALSE, <<XKeyDmg>>, Str(<<2>>)),
          Rel(<<"2">>, FALSE, TRUE, <<XKeyDmg>>, Str(<<2>>)),
          Rel(<<"v", "1">>, FALSE, FALSE, <<XKeyIMDmg>>, Str(<<2>>))}

ApiAnswers ==
    {[k |-> "HTTPError", v |-> <<>>], [k |-> "URLError", v |-> <<>>]}
    \cup {[k |-> "ok", v |-> rs] : rs \in SeqsUpTo(ApiReleases, MaxReleases)}

\* Items of the feed file found on disk.
PriorItem(version, enclosure) == [version |-> version, enclosure |-> enclosure]
NoSignature == Obj([edSignature |-> Missing])
Signed(sig) == Obj([edSignature |-> Str(sig)])

PriorItems ==
    {PriorItem(Str(ver), e) :
        ver \in {<<"1">>, <<"2">>},
        e \in {Missing, NoSignature, Signed("ABC"), Signed("DEF")}}
    \cup {PriorItem(Str(<<"v", "1">>), Signed("ABC")),
          PriorItem(Missing, NoSignature),
          PriorItem(Missing, Signed("ABC"))}

PriorFiles ==
    {[k |-> "absent", v |-> <<>>], [k |-> "invalid", v |-> <<>>],
     [k |-> "doc", v |-> [has_items |-> FALSE, items |-> <<>>]]}
    \cup {[k |-> "doc", v |-> [has_items |-> TRUE, items |-> its]] :
            its \in SeqsUpTo(PriorItems, MaxPriorItems)}

----------------------------------------------------------------------------
(* generate_appcast *)

HasSignature(prior) ==
    prior.enclosure.k = "obj" /\ prior.enclosure.v.edSignature.k # "missing"

\* signature_map[item['version']] = item['enclosure']['edSignature'], over
\* the items in order: a later item of the same version overwrites.
RECURSIVE SignatureMapOf(_, _)
SignatureMapOf(m, priors) ==
    IF priors = <<>> THEN m
    ELSE LET prior == Head(priors)
             put == [ver \in DOMAIN m \cup {prior.version.v} |->
                        IF ver = prior.version.v
                        THEN prior.enclosure.v.edSignature.v
                        ELSE m[ver]]
         IN  SignatureMapOf(IF HasSignature(prior) THEN put ELSE m,
                            Tail(priors))

\* item['version'] raises KeyError: a signed item without version.
SignatureMapRaises(priors) ==
    \E i \in 1..Len(priors) :
        HasSignature(priors[i]) /\ priors[i].version.k = "missing"

\* existing_appcast and 'items' in existing_appcast
HasPriorItems(existing) == existing.k = "obj" /\ existing.v.has_items

\* The signature looked up under the tag name ("v" + version).
RestoreSignature_by_tag(it, m) ==
    IF (<<"v">> \o it.version) \in DOMAIN m
    THEN [it EXCEPT !.enclosure.edSignature = Str(m[<<"v">> \o it.version])]
    ELSE it

\* if version in signature_map: item['enclosure']['edSignature'] = ...
RestoreSignature(it, m) ==
    IF it.version \in DOMAIN m
    THEN [it EXCEPT !.enclosure.edSignature = Str(m[it.version])]
    ELSE it

\* items.sort(key=pubDate, reverse=True) raises TypeError: "<" between
\* None and a string or None, as soon as two items are compared.
SortRaises(its) ==
    Len(its) >= 2 /\ \E i \in 1..Len(its) : its[i].pubDate.k # "str"

\* Stable insertion of x: after every item whose pubDate is not less.
RECURSIVE InsertDesc(_, _)
InsertDesc(sorted, x) ==
    IF sorted = <<>> THEN <<x>>
    ELSE IF StrLess(Head(sorted).pubDate.v, x.pubDate.v) THEN <<x>> \o sorted
    ELSE <<Head(sorted)>> \o InsertDesc(Tail(sorted), x)

RECURSIVE SortDescFrom(_, _)
SortDescFrom(sorted, rest) ==
    IF rest = <<>> THEN sorted
    ELSE SortDescFrom(InsertDesc(sorted, Head(rest)), Tail(rest))

\* items.sort(key=lambda x: x['pubDate'], reverse=True), which is stable
SortDesc(its) == SortDescFrom(<<>>, its)

Appcast(its) ==
    [title |-> "XKey Updates",
     description |-> "XKey - Vietnamese Input Method for macOS",
     language |-> "vi",
     items |-> its]

NoDmgWarning == "Warning: No DMG found for release"
LoadWarning == "Warning: Could not load existing appcast"
FetchError == "Error fetching releases"
\* Uncaught exceptions: the interpreter prints the traceback and exits 1.
TracebackURLError == "Traceback: URLError"
TracebackKeyError == "Traceback: KeyError"
TracebackTypeError == "Traceback: TypeError"

NotWritten == [written |-> FALSE, doc |-> Appcast(<<>>)]
\* exit_code of a process that has not ended
Running == 0 - 1

----------------------------------------------------------------------------
(* A run of main *)

IdleAsset == assets = <<>> /\ dmg_asset = PyNone
IdleMd == lines = <<>> /\ pos = 0 /\ in_ul = FALSE /\ in_ol = FALSE
          /\ result = <<>>
IdleMain ==
    /\ file = [k |-> "absent", v |-> <<>>]
    /\ api = [k |-> "ok", v |-> <<>>]
    /\ existing_appcast = PyNone
    /\ releases = <<>>
    /\ signature_map = <<>>
    /\ idx = 0
    /\ items = <<>>
    /\ appcast = Appcast(<<>>)
    /\ output = NotWritten
    /\ exit_code = Running

Init ==
    /\ pc = "main"
    /\ file \in PriorFiles
    /\ api \in ApiAnswers
    /\ existing_appcast = PyNone
    /\ stderr = <<>>
    /\ releases = <<>>
    /\ signature_map = <<>>
    /\ idx = 0
    /\ release = PyNone
    /\ item = PyNone
    /\ items = <<>>
    /\ appcast = Appcast(<<>>)
    /\ output = NotWritten
    /\ exit_code = Running
    /\ IdleAsset
    /\ IdleMd

\* An uncaught exception or sys.exit(1): the process ends, status 1.
Exit1(message) ==
    /\ stderr' = Append(stderr, message)
    /\ exit_code' = 1
    /\ pc' = "exited"

\* main, lines 199-207, with a fatal read failure.
LoadExisting_fatal ==
    /\ pc = "main"
    /\ IF file.k = "invalid"
       THEN /\ Exit1(LoadWarning)
            /\ UNCHANGED existing_appcast
       ELSE /\ existing_appcast' = (IF file.k = "doc" THEN Obj(file.v) ELSE PyNone)
            /\ pc' = "fetch_github_releases"
            /\ UNCHANGED <<stderr, exit_code>>
    /\ UNCHANGED <<file, api, releases, signature_map, idx, items, appcast,
                   output, itemVars, assetVars, mdVars>>

\* main, lines 199-207: load the existing appcast if the file exists.
LoadExisting ==
    /\ pc = "main"
    /\ existing_appcast' = (IF file.k = "doc" THEN Obj(file.v) ELSE PyNone)
    /\ stderr' = (IF file.k = "invalid" THEN Append(stderr, LoadWarning)
                  ELSE stderr)
    /\ pc' = "fetch_github_releases"
    /\ UNCHANGED <<file, api, releases, signature_map, idx, items, appcast,
                   output, exit_code, itemVars, assetVars, mdVars>>

\* fetch_github_releases returns the decoded list.
FetchReleases ==
    /\ pc = "fetch_github_releases"
    /\ api.k = "ok"
    /\ releases' = api.v
    /\ pc' = "signature_map"
    /\ UNCHANGED <<file, api, existing_appcast, stderr, signature_map, idx,
                   items, appcast, output, exit_code, itemVars, assetVars,
                   mdVars>>

\* The HTTP error reported and swallowed: the run goes on with no release.
FetchHTTPError_goes_on ==
    /\ pc = "fetch_github_releases"
    /\ api.k = "HTTPError"
    /\ stderr' = Append(stderr, FetchError)
    /\ releases' = <<>>
    /\ pc' = "signature_map"
    /\ UNCHANGED <<file, api, existing_appcast, signature_map, idx, items,
                   appcast, output, exit_code, itemVars, assetVars, mdVars>>

\* except urllib.error.HTTPError: print the error, sys.exit(1).
FetchHTTPError ==
    /\ pc = "fetch_github_releases"
    /\ api.k = "HTTPError"
    /\ Exit1(FetchError)
    /\ UNCHANGED <<file, api, existing_appcast, releases, signature_map, idx,
                   items, appcast, output, itemVars, assetVars, mdVars>>

\* Any other failure of urlopen (URLError) is not caught.
FetchURLError ==
    /\ pc = "fetch_github_releases"
    /\ api.k = "URLError"
    /\ Exit1(TracebackURLError)
    /\ UNCHANGED <<file, api, existing_appcast, releases, signature_map, idx,
                   items, appcast, output, itemVars, assetVars, mdVars>>

\* generate_appcast, lines 161-168.
BuildSignatureMap ==
    /\ pc = "signature_map"
    /\ IF HasPriorItems(existing_appcast)
          /\ SignatureMapRaises(existing_appcast.v.items)
       THEN /\ Exit1(TracebackKeyError)
            /\ UNCHANGED <<signature_map, idx>>
       ELSE /\ signature_map' =
                    (IF HasPriorItems(existing_appcast)
                     THEN SignatureMapOf(<<>>, existing_appcast.v.items)
                     ELSE <<>>)
            /\ idx' = 1
            /\ pc' = "for_release"
            /\ UNCHANGED <<stderr, exit_code>>
    /\ UNCHANGED <<file, api, existing_appcast, releases, items, appcast,
                   output, itemVars, assetVars, mdVars>>

\* generate_appcast, lines 169-176: one iteration of the for loop.
ProcessRelease ==
    /\ pc = "for_release"
    /\ idx <= Len(releases)
    /\ LET rel == releases[idx]
           it == generate_appcast_item(rel)
       IN  /\ release' = rel
           /\ item' = it
           /\ stderr' = (IF SkipsNoDmg(rel) THEN Append(stderr, NoDmgWarning)
                         ELSE stderr)
           /\ items' = (IF it.k = "obj"
                        THEN Append(items, RestoreSignature(it.v, signature_map))
                        ELSE items)
    /\ idx' = idx + 1
    /\ UNCHANGED <<pc, file, api, existing_appcast, releases, signature_map,
                   appcast, output, exit_code, assetVars, mdVars>>

\* generate_appcast, line 179, when the comparison of two keys raises.
SortItemsRaises ==
    /\ pc = "for_release"
    /\ idx > Len(releases)
    /\ SortRaises(items)
    /\ Exit1(TracebackTypeError)
    /\ UNCHANGED <<file, api, existing_appcast, releases, signature_map, idx,
                   items, appcast, output, itemVars, assetVars, mdVars>>

\* generate_appcast, lines 179-192: sort, keep the first item, return.
SortAndTruncate ==
    /\ pc = "for_release"
    /\ idx > Len(releases)
    /\ ~SortRaises(items)
    /\ items' = (IF items # <<>> THEN <<SortDesc(items)[1]>> ELSE <<>>)
    /\ appcast' = Appcast(items')
    /\ pc' = "write"
    /\ UNCHANGED <<file, api, existing_appcast, stderr, releases,
                   signature_map, idx, output, exit_code, itemVars, assetVars,
                   mdVars>>

\* main, lines 212-218: write the file, print the summary, end.
WriteOutput ==
    /\ pc = "write"
    /\ output' = [written |-> TRUE, doc |-> appcast]
    /\ exit_code' = 0
    /\ pc' = "exited"
    /\ UNCHANGED <<file, api, existing_appcast, stderr, releases,
                   signature_map, idx, items, appcast, itemVars, assetVars,
                   mdVars>>

Next ==
    \/ LoadExisting
    \/ FetchReleases
    \/ FetchHTTPError
    \/ FetchURLError
    \/ BuildSignatureMap
    \/ ProcessRelease
    \/ SortItemsRaises
    \/ SortAndTruncate
    \/ WriteOutput

Spec == Init /\ [][Next]_vars

----------------------------------------------------------------------------
(* generate_appcast_item on one release *)

InitItem ==
    /\ pc = "generate_appcast_item"
    /\ release \in ItemReleases
    /\ item = PyNone
    /\ stderr = <<>>
    /\ IdleMain
    /\ IdleAsset
    /\ IdleMd

GenerateItem ==
    /\ pc = "generate_appcast_item"
    /\ item' = generate_appcast_item(release)
    /\ stderr' = (IF SkipsNoDmg(release) THEN Append(stderr, NoDmgWarning)
                  ELSE stderr)
    /\ pc' = "item_done"
    /\ UNCHANGED <<file, api, existing_appcast, releases, signature_map, idx,
                   items, appcast, output, exit_code, release, assetVars,
                   mdVars>>

NextItem == GenerateItem

SpecItem == InitItem /\ [][NextItem]_vars

----------------------------------------------------------------------------
(* find_dmg_asset on one asset list *)

InitAsset ==
    /\ pc = "find_dmg_asset"
    /\ assets \in AssetLists
    /\ dmg_asset = PyNone
    /\ release = PyNone
    /\ item = PyNone
    /\ stderr = <<>>
    /\ IdleMain
    /\ IdleMd

FindDmgAsset ==
    /\ pc = "find_dmg_asset"
    /\ dmg_asset' = find_dmg_asset(assets)
    /\ pc' = "asset_done"
    /\ UNCHANGED <<mainVars, itemVars, assets, mdVars>>

NextAsset == FindDmgAsset

SpecAsset == InitAsset /\ [][NextAsset]_vars

----------------------------------------------------------------------------
(* markdown_to_html: the scan of the lines, one line at a step *)

InitMd ==
    /\ pc = "markdown_to_html"
    /\ lines \in Texts(MaxLines)
    /\ pos = 1
    /\ in_ul = FALSE
    /\ in_ol = FALSE
    /\ result = <<>>
    /\ release = PyNone
    /\ item = PyNone
    /\ stderr = <<>>
    /\ IdleMain
    /\ IdleAsset

\* Lines 65-87: the body of the for loop on lines[pos].
ScanNextLine ==
    /\ pc = "markdown_to_html"
    /\ pos <= Len(lines)
    /\ LET st == ScanLine([in_ul |-> in_ul, in_ol |-> in_ol, result |-> result],
                          lines[pos])
       IN  /\ in_ul' = st.in_ul
           /\ in_ol' = st.in_ol
           /\ result' = st.result
    /\ pos' = pos + 1
    /\ UNCHANGED <<pc, lines, mainVars, itemVars, assetVars>>

\* Lines 89-94: close the open lists and return.
ScanFinish ==
    /\ pc = "markdown_to_html"
    /\ pos > Len(lines)
    /\ result' = ScanEnd([in_ul |-> in_ul, in_ol |-> in_ol,
                          result |-> result]).result
    /\ pc' = "md_done"
    /\ UNCHANGED <<lines, pos, in_ul, in_ol, mainVars, itemVars, assetVars>>

NextMd == ScanNextLine \/ ScanFinish

SpecMd == InitMd /\ [][NextMd]_vars

----------------------------------------------------------------------------
(* Properties *)

\* A release that is neither a draft nor a prerelease and has an installer.
Qualifies(rel) ==
    ~rel.draft /\ ~rel.prerelease /\ find_dmg_asset(rel.assets).k = "obj"

QualifyingUpTo(n) == {i \in 1..n : Qualifies(releases[i])}

\* a >= b on pubDate values; two values that are not both strings compare
\* only when they are the same value.
DateGeq(a, b) == a = b \/ (a.k = "str" /\ b.k = "str" /\ StrLess(b.v, a.v))

\* generate_appcast went through every release of the answer.
LoopFinished ==
    api.k = "ok" /\ idx = Len(releases) + 1 /\ pc \in {"write", "exited"}

\* The single item is the item of a qualifying release whose pubDate is the
\* greatest among the qualifying releases, and there is none when no release
\* qualifies.
NewestQualifying(its) ==
    LET q == QualifyingUpTo(Len(releases))
    IN  /\ Len(its) = (IF q # {} THEN 1 ELSE 0)
        /\ q # {} =>
            \E i \in q :
                /\ its[1] = RestoreSignature(generate_appcast_item(releases[i]).v,
                                             signature_map)
                /\ \A j \in q : DateGeq(its[1].pubDate, PubDate(releases[j]))

\* C1: for every sequence of releases the API returns, generate_appcast
\* produces an items sequence with exactly one entry when at least one
\* release qualifies and none otherwise, the entry being the qualifying item
\* with the greatest pubDate.
C1_Claim ==
    LoopFinished => /\ ~(\E n \in 1..Len(stderr) : stderr[n] = TracebackTypeError)
                    /\ NewestQualifying(appcast.items)

\* What holds of C1 on the code: whenever generate_appcast returns, its items
\* are as C1 says.
NewestQualifyingWhenReturned ==
    (LoopFinished /\ (pc = "write" \/ output.written))
        => NewestQualifying(appcast.items)

\* C2: generate_appcast_item returns an item exactly for the releases that
\* are neither draft nor prerelease and for which find_dmg_asset selects an
\* asset, and the loop goes on after a skipped release: the items gathered
\* are those of all the qualifying releases seen so far.
C2_ItemIffQualifies ==
    /\ (pc \in {"for_release", "write", "exited"} /\ idx > 1) =>
        /\ release = releases[idx - 1]
        /\ (item.k = "obj") <=> Qualifies(release)
        /\ (release.draft \/ release.prerelease) => item.k = "none"
    /\ pc = "for_release" =>
        Len(items) = Cardinality(QualifyingUpTo(idx - 1))

C2_SkippedThenItem ==
    /\ pc = "for_release"
    /\ idx = 3
    /\ releases[1].prerelease
    /\ releases[1].assets # <<>>
    /\ item.k = "obj"
    /\ Len(items) = 1

\* Positions of the items of the feed file on disk that have the version,
\* an enclosure and an edSignature.
SignedPriors(ver) ==
    IF file.k = "doc" /\ file.v.has_items
    THEN {i \in 1..Len(file.v.items) :
            /\ file.v.items[i].enclosure.k = "obj"
            /\ file.v.items[i].enclosure.v.edSignature.k = "str"
            /\ file.v.items[i].version.k = "str"
            /\ file.v.items[i].version.v = ver}
    ELSE {}

SignatureCopied(it) ==
    LET sp == SignedPriors(it.version)
    IN  /\ (it.enclosure.edSignature.k = "str") <=> (sp # {})
        /\ sp = {} => it.enclosure.edSignature.k = "missing"
        /\ sp # {} =>
            \E i \in sp : it.enclosure.edSignature.v
                            = file.v.items[i].enclosure.v.edSignature.v

\* C3: the item of the regenerated feed has an enclosure.edSignature exactly
\* when the prior feed holds an item of the same version string with an
\* enclosure and an edSignature, and the value is one recorded there; with
\* no prior document or no matching version there is no edSignature field.
C3_SignatureOnlyCopied ==
    /\ \A n \in 1..Len(appcast.items) : SignatureCopied(appcast.items[n])
    /\ \A n \in 1..Len(output.doc.items) : SignatureCopied(output.doc.items[n])

C3_SignatureRestored ==
    /\ output.written
    /\ Len(output.doc.items) = 1
    /\ output.doc.items[1].enclosure.edSignature = Str("ABC")
    /\ output.doc.items[1].version = <<"1">>
    /\ SignedPriors(<<"1">>) # {}

\* C4: when the release-listing request fails the process ends with a
\* non-zero status and the output file is never written; a written output
\* file means the fetch succeeded.
C4_NoWriteWithoutFetch ==
    /\ api.k # "ok" => output = NotWritten
    /\ (api.k # "ok" /\ pc = "exited") => exit_code = 1
    /\ api.k # "ok" => pc \in {"main", "fetch_github_releases", "exited"}
    /\ output.written => (api.k = "ok" /\ releases = api.v)

C4_FetchFailed ==
    /\ api.k = "HTTPError"
    /\ pc = "exited"
    /\ exit_code = 1
    /\ ~output.written
    /\ \E n \in 1..Len(stderr) : stderr[n] = FetchError

StripOneV(tag) == IF tag # <<>> /\ Head(tag) = "v" THEN Tail(tag) ELSE tag

\* C6: the version of the item is the tag name with at most one leading "v"
\* removed and nothing else changed.
C6_Claim ==
    (pc = "item_done" /\ item.k = "obj") =>
        item.v.version = StripOneV(release.tag_name)

\* The names of AssetNames that end with ".dmg" and do not contain "IM".
DiskImagesNotIM == {XKeyDmg, XKeyOldDmg, XKeyBetaDmg}

\* C7: find_dmg_asset returns the asset named "XKey.dmg" when there is one,
\* wherever it stands; otherwise the first asset, in list order, whose name
\* ends with ".dmg" and does not contain "IM"; otherwise nothing.
C7_AssetSelection ==
    pc = "asset_done" =>
        LET mains == {i \in 1..Len(assets) : assets[i].name = XKeyDmg}
            others == {i \in 1..Len(assets) : assets[i].name \in DiskImagesNotIM}
        IN  IF mains # {}
            THEN /\ dmg_asset.k = "obj"
                 /\ \E i \in mains : dmg_asset.v = assets[i]
            ELSE IF others # {}
            THEN /\ dmg_asset.k = "obj"
                 /\ \E i \in others :
                        /\ dmg_asset.v = assets[i]
                        /\ \A j \in others : i <= j
            ELSE dmg_asset.k = "none"

C7_MainAfterFallback ==
    /\ pc = "asset_done"
    /\ Len(assets) = 2
    /\ assets[1].name = XKeyOldDmg
    /\ assets[2].name = XKeyDmg
    /\ dmg_asset.k = "obj"
    /\ dmg_asset.v = assets[2]

\* The body has a line that is not blank: its rendered HTML is not empty.
HasContent(body) ==
    body.k = "str" /\ \E n \in 1..Len(body.v) : body.v[n] \notin {"empty", "space"}

HasLink(html) == \E n \in 1..Len(html) : html[n] = LinkLine

\* C8: a release whose body is absent or empty gets releaseNotesHTML = '';
\* the paragraph linking to the release page is appended exactly when the
\* rendered HTML of the body is not empty.
C8_NotesAndLink ==
    (pc = "item_done" /\ item.k = "obj") =>
        LET html == item.v.releaseNotesHTML
            body == release.body
        IN  /\ (body.k \in {"missing", "none"} \/ body = Str(<<"empty">>))
                => html = <<>>
            /\ HasLink(html) <=> HasContent(body)
            /\ HasContent(body) =>
                /\ html = Append(markdown_to_html(body.v), LinkLine)
                /\ markdown_to_html(body.v) # <<>>
            /\ ~HasContent(body) => html = <<>>

C8_NoBodyNoLink ==
    /\ pc = "item_done"
    /\ item.k = "obj"
    /\ release.body.k = "none"
    /\ item.v.releaseNotesHTML = <<>>

\* C9: pubDate is published_at, and created_at whenever published_at is
\* absent (not in the record, or with no value); so it is a timestamp string
\* whenever the release has a created_at.
C9_Claim ==
    (pc = "item_done" /\ item.k = "obj") =>
        /\ item.v.pubDate = (IF release.published_at.k = "str"
                             THEN release.published_at
                             ELSE Get(release.created_at, PyNone))
        /\ release.created_at.k = "str" => item.v.pubDate.k = "str"

\* Every closing list tag of the tokens closes the list opened last.
RECURSIVE TagsNest(_, _)
TagsNest(open, toks) ==
    IF toks = <<>> THEN TRUE
    ELSE IF Head(toks) \in {"<ul>", "<ol>"}
        THEN TagsNest(<<Head(toks)>> \o open, Tail(toks))
    ELSE IF Head(toks) = "</ul>"
        THEN open # <<>> /\ Head(open) = "<ul>" /\ TagsNest(Tail(open), Tail(toks))
    ELSE IF Head(toks) = "</ol>"
        THEN open # <<>> /\ Head(open) = "<ol>" /\ TagsNest(Tail(open), Tail(toks))
    ELSE TagsNest(open, Tail(toks))

\* C10: at every step of the list scan an unordered and an ordered list are
\* never open together, and every closing list tag emitted closes the list
\* block opened last.
C10_Claim == ~(in_ul /\ in_ol) /\ TagsNest(<<>>, result)

====
